---- MODULE Spec2Model ----
(***************************************************************************)
(* Model of the graph-construction core of graph-vis: parseIntrospection,  *)
(* unwrapType, createTypeNode and the breadth-first extractGraph.          *)
(*                                                                         *)
(* Encoding of JavaScript values:                                          *)
(*   - a type name is the tuple of its characters, so that startsWith,     *)
(*     endsWith and === are computed and not tabulated; '' is << >>;       *)
(*   - null and undefined are the one-element tuples Null and Undefined,   *)
(*     whose element is not a character, so they equal no string;          *)
(*   - an optional array is [defined, items];                              *)
(*   - a type reference is the tuple of its layers, outermost first: the   *)
(*     reference's ofType is its Tail, and a null reference is << >>;      *)
(*   - a Map is the tuple of its [key, value] entries in insertion order.  *)
(***************************************************************************)
EXTENDS Integers, Sequences, FiniteSets, TLC

\* Largest number of type records in a generated introspection document.
MaxTypes == 4

\* Largest number of LIST / NON_NULL wrappers of a generated type reference.
MaxWrap == 7

Null == <<"null">>
Undefined == <<"undefined">>

Some(s) == [defined |-> TRUE, items |-> s]
None == [defined |-> FALSE, items |-> << >>]

\* A test for the pattern anywhere in the string, as includes makes it.
Includes(s, p) == \E k \in 0..(Len(s) - Len(p)) : SubSeq(s, k + 1, k + Len(p)) = p

StartsWith(s, p) == Len(s) >= Len(p) /\ SubSeq(s, 1, Len(p)) = p
EndsWith(s, p) == Len(s) >= Len(p) /\ SubSeq(s, Len(s) - Len(p) + 1, Len(s)) = p

---------------------------------------------------------------------------
(* Strings of the program. *)

MetaPrefix == <<"_", "_">>
Unknown == <<"U", "n", "k", "n", "o", "w", "n">>
Connection == <<"C", "o", "n", "n", "e", "c", "t", "i", "o", "n">>
EdgeSuffix == <<"E", "d", "g", "e">>
PageInfo == <<"P", "a", "g", "e", "I", "n", "f", "o">>
BUILT_IN_SCALARS ==
    { <<"S", "t", "r", "i", "n", "g">>, <<"I", "n", "t">>, <<"F", "l", "o", "a", "t">>,
      <<"B", "o", "o", "l", "e", "a", "n">>, <<"I", "D">> }

FIELD == "FIELD"
IMPLEMENTS == "IMPLEMENTS"
UNION_MEMBER == "UNION_MEMBER"

\* Messages are strings and so tuples of characters, as the names are.
NoError == << >>
ErrInvalidInput ==
    <<"I", "n", "v", "a", "l", "i", "d", " ", "i", "n", "t", "r", "o", "s", "p", "e",
      "c", "t", "i", "o", "n", " ", "d", "a", "t", "a", ":", " ", "m", "i", "s", "s",
      "i", "n", "g", " ", "_", "_", "s", "c", "h", "e", "m", "a", ".", "t", "y", "p",
      "e", "s">>
ErrNoRootType ==
    <<"N", "o", " ", "q", "u", "e", "r", "y", " ", "t", "y", "p", "e", " ", "f", "o",
      "u", "n", "d", " ", "i", "n", " ", "s", "c", "h", "e", "m", "a">>
\* `Root type ${parsed.queryTypeName} not found`
ErrRootTypeNotFound(queryTypeName) ==
    <<"R", "o", "o", "t", " ", "t", "y", "p", "e", " ">>
        \o queryTypeName \o
    <<" ", "n", "o", "t", " ", "f", "o", "u", "n", "d">>
\* How the runtime prints the two values an absent array can be.
AbsentValues == {<<"u", "n", "d", "e", "f", "i", "n", "e", "d">>, <<"n", "u", "l", "l">>}
\* The message of the TypeError the runtime throws when .map is read off an
\* absent array: "Cannot read properties of undefined (reading 'map')".
ErrTypeError(absent) ==
    <<"C", "a", "n", "n", "o", "t", " ", "r", "e", "a", "d", " ", "p", "r", "o", "p",
      "e", "r", "t", "i", "e", "s", " ", "o", "f", " ">>
        \o absent \o
    <<" ", "(", "r", "e", "a", "d", "i", "n", "g", " ", "'", "m", "a", "p", "'", ")">>

---------------------------------------------------------------------------
(* Map, Set and Array operations. *)

MapHas(m, k) == \E i \in 1..Len(m) : m[i].key = k
MapGet(m, k) == m[CHOOSE i \in 1..Len(m) : m[i].key = k].value
MapSet(m, k, v) ==
    IF MapHas(m, k)
    THEN [i \in 1..Len(m) |-> IF m[i].key = k THEN [key |-> k, value |-> v] ELSE m[i]]
    ELSE Append(m, [key |-> k, value |-> v])
MapKeys(m) == [i \in 1..Len(m) |-> m[i].key]
KeySet(m) == {m[i].key : i \in 1..Len(m)}

Range(s) == {s[i] : i \in 1..Len(s)}

---------------------------------------------------------------------------
(* parser/parseIntrospection *)

\* A resolver that looks one wrapper deep and no further.
unwrapTypeOnce(typeRef) ==
    IF typeRef = << >> THEN Null
    ELSE IF Head(typeRef).kind \in {"LIST", "NON_NULL"}
    THEN IF Tail(typeRef) = << >> THEN Null ELSE Head(Tail(typeRef)).name
    ELSE Head(typeRef).name

RECURSIVE unwrapType(_)
unwrapType(typeRef) ==
    IF typeRef = << >> THEN Null
    ELSE IF Head(typeRef).kind \in {"LIST", "NON_NULL"} THEN unwrapType(Tail(typeRef))
    ELSE Head(typeRef).name

\* A filter that takes no type for a meta-type.
IsMetaTypeNever(type) == FALSE

IsMetaType(type) == StartsWith(type.name, MetaPrefix)

\* A parser that looks at the types sequence only once a query type is there.
ParseFailsAfterQueryType(d) == (~d.hasSchema \/ ~d.types.defined) /\ d.queryType.defined

\* A parser that asks for the schema object only.
ParseFailsSchemaOnly(d) == ~d.hasSchema

ParseFails(d) == ~d.hasSchema \/ ~d.types.defined

\* A parser that keeps every type record.
ParsedTypesUnfiltered(d) == d.types.items

ParsedTypes(d) ==
    LET NotMeta(type) == ~IsMetaType(type)
    IN  SelectSeq(d.types.items, NotMeta)

\* A parser that falls back to the conventional root name.
ParsedQueryTypeNameDefaultingToQuery(d) ==
    IF ~d.queryType.defined \/ d.queryType.name \in {Null, Undefined, << >>}
    THEN <<"Q", "u", "e", "r", "y">>
    ELSE d.queryType.name

ParsedQueryTypeName(d) ==
    IF ~d.queryType.defined \/ d.queryType.name \in {Null, Undefined, << >>}
    THEN Null
    ELSE d.queryType.name

\* The value parseIntrospection returns when it does not throw.
parseIntrospection(d) ==
    [types |-> ParsedTypes(d), queryTypeName |-> ParsedQueryTypeName(d)]

---------------------------------------------------------------------------
(* nodes/createTypeNode *)

Falsy(s) == s \in {Null, Undefined, << >>}

extractFields(typeData) ==
    IF ~typeData.fields.defined \/ Len(typeData.fields.items) = 0
    THEN None
    ELSE Some([i \in 1..Len(typeData.fields.items) |->
            LET field == typeData.fields.items[i]
                base == unwrapType(field.type)
            IN  [name |-> field.name,
                 typeName |-> IF Falsy(base) THEN Unknown ELSE base]])

\* array.map(...) throws a TypeError when array is undefined or null.
MapThrows(array) == ~array.defined

\* extractFields without its guard: typeData.fields.map(...) at once.
extractFieldsThrowsUnguarded(typeData) == MapThrows(typeData.fields)

\* Whether extractFields throws: the guard returns before fields.map is reached.
extractFieldsThrows(typeData) ==
    IF ~typeData.fields.defined \/ Len(typeData.fields.items) = 0
    THEN FALSE
    ELSE MapThrows(typeData.fields)

\* Whether refs?.map(...) throws: the optional chain stops at undefined or null.
UnwrapAllThrows(refs) == IF ~refs.defined THEN FALSE ELSE MapThrows(refs)

\* Whether createTypeNode throws.
createTypeNodeThrows(typeData) ==
    \/ extractFieldsThrows(typeData)
    \/ UnwrapAllThrows(typeData.interfaces)
    \/ UnwrapAllThrows(typeData.possibleTypes)

\* The names of the references with those that resolve to null left in.
UnwrapAllKeepingNull(refs) ==
    IF ~refs.defined THEN None
    ELSE Some([i \in 1..Len(refs.items) |-> unwrapType(refs.items[i])])

UnwrapAll(refs) ==
    LET NotNull(n) == n # Null
    IN  IF ~refs.defined THEN None
        ELSE Some(SelectSeq([i \in 1..Len(refs.items) |-> unwrapType(refs.items[i])], NotNull))

createTypeNode(typeData) ==
    [name |-> typeData.name,
     kind |-> typeData.kind,
     isComposite |-> typeData.kind \in {"OBJECT", "INTERFACE", "UNION"},
     isRelay |-> \/ EndsWith(typeData.name, Connection)
                 \/ EndsWith(typeData.name, EdgeSuffix)
                 \/ typeData.name = PageInfo,
     isBuiltIn |-> \/ StartsWith(typeData.name, MetaPrefix)
                   \/ typeData.name \in BUILT_IN_SCALARS,
     fields |-> extractFields(typeData),
     interfaces |-> UnwrapAll(typeData.interfaces),
     possibleTypes |-> UnwrapAll(typeData.possibleTypes),
     description |-> typeData.description]

---------------------------------------------------------------------------
(* graph/extractGraph: the pieces of the traversal. *)

\* typeMap: forEach (type) => typeMap.set(type.name, type)
RECURSIVE BuildTypeMap(_, _)
BuildTypeMap(m, types) ==
    IF types = << >> THEN m
    ELSE BuildTypeMap(MapSet(m, Head(types).name, Head(types)), Tail(types))

EdgeReversed(source, target, edgeType, fieldName) ==
    [source |-> target, target |-> source, edgeType |-> edgeType, fieldName |-> fieldName]
Edge(source, target, edgeType, fieldName) ==
    [source |-> source, target |-> target, edgeType |-> edgeType, fieldName |-> fieldName]

\* while (queue.length > 0)
LoopCondition(q) == Len(q) > 0

\* queue.shift(): the removed first element and the queue that is left.
ShiftLifo(q) == [head |-> q[Len(q)], rest |-> SubSeq(q, 1, Len(q) - 1)]
Shift(q) == [head |-> Head(q), rest |-> Tail(q)]

\* if (!visited.has(target)) { data = typeMap.get(target); if (data) ...
ShouldAddIgnoringVisited(seen, tm, target) == MapHas(tm, target)
ShouldAdd(seen, tm, target) == target \notin seen /\ MapHas(tm, target)

\* Relate without its queue.push.
RelateWithoutPush(g, tm, source, target, edgeType, fieldName) ==
    LET pushed == [g EXCEPT !.edges = Append(@, Edge(source, target, edgeType, fieldName))]
    IN  IF ShouldAdd(g.visited, tm, target)
        THEN [pushed EXCEPT
                !.nodes = MapSet(@, target, createTypeNode(MapGet(tm, target))),
                !.visited = @ \cup {target},
                !.created = Append(@, target)]
        ELSE pushed

\* Relate that emits no edge to a target without a record.
RelateKnownOnly(g, tm, source, target, edgeType, fieldName) ==
    LET pushed == [g EXCEPT !.edges = Append(@, Edge(source, target, edgeType, fieldName))]
    IN  IF ShouldAdd(g.visited, tm, target)
        THEN [pushed EXCEPT
                !.nodes = MapSet(@, target, createTypeNode(MapGet(tm, target))),
                !.visited = @ \cup {target},
                !.queue = Append(@, target),
                !.created = Append(@, target),
                !.enqueued = Append(@, target)]
        ELSE IF MapHas(tm, target) THEN pushed ELSE g

\* Relate that emits one edge at most from a source to a target.
RelateDeduplicated(g, tm, source, target, edgeType, fieldName) ==
    LET known == \E i \in 1..Len(g.edges) :
                    g.edges[i].source = source /\ g.edges[i].target = target
        pushed == IF known THEN g
                  ELSE [g EXCEPT
                          !.edges = Append(@, Edge(source, target, edgeType, fieldName))]
    IN  IF ShouldAdd(g.visited, tm, target)
        THEN [pushed EXCEPT
                !.nodes = MapSet(@, target, createTypeNode(MapGet(tm, target))),
                !.visited = @ \cup {target},
                !.queue = Append(@, target),
                !.created = Append(@, target),
                !.enqueued = Append(@, target)]
        ELSE pushed

\* Relate that emits no edge to a target it adds.
RelateEdgeToKnownOnly(g, tm, source, target, edgeType, fieldName) ==
    LET pushed == [g EXCEPT !.edges = Append(@, Edge(source, target, edgeType, fieldName))]
    IN  IF ShouldAdd(g.visited, tm, target)
        THEN [g EXCEPT
                !.nodes = MapSet(@, target, createTypeNode(MapGet(tm, target))),
                !.visited = @ \cup {target},
                !.queue = Append(@, target),
                !.created = Append(@, target),
                !.enqueued = Append(@, target)]
        ELSE pushed

\* Relate without its visited.add.
RelateWithoutMark(g, tm, source, target, edgeType, fieldName) ==
    LET pushed == [g EXCEPT !.edges = Append(@, Edge(source, target, edgeType, fieldName))]
    IN  IF ShouldAdd(g.visited, tm, target)
        THEN [pushed EXCEPT
                !.nodes = MapSet(@, target, createTypeNode(MapGet(tm, target))),
                !.queue = Append(@, target),
                !.created = Append(@, target),
                !.enqueued = Append(@, target)]
        ELSE pushed

\* The body of one iteration of a relationship loop: push the edge, then add
\* the target's node, mark it visited and enqueue it when it is new and has a
\* record.  g is [nodes, edges, visited, queue, created, enqueued]; created
\* and enqueued log the calls of createTypeNode and of queue.push.
Relate(g, tm, source, target, edgeType, fieldName) ==
    LET pushed == [g EXCEPT !.edges = Append(@, Edge(source, target, edgeType, fieldName))]
    IN  IF ShouldAdd(g.visited, tm, target)
        THEN [pushed EXCEPT
                !.nodes = MapSet(@, target, createTypeNode(MapGet(tm, target))),
                !.visited = @ \cup {target},
                !.queue = Append(@, target),
                !.created = Append(@, target),
                !.enqueued = Append(@, target)]
        ELSE pushed

\* The loops in another order: fields, union members, interfaces.
SectionAfterSwapped(section) ==
    CASE section = "fields" -> "possibleTypes"
      [] section = "possibleTypes" -> "interfaces"
      [] section = "interfaces" -> "loop"

\* The three relationship loops of one expansion, in program order.
SectionAfter(section) ==
    CASE section = "fields" -> "interfaces"
      [] section = "interfaces" -> "possibleTypes"
      [] section = "possibleTypes" -> "loop"

\* The array a relationship loop iterates, as an optional array.
SectionItems(node, section) ==
    CASE section = "fields" -> node.fields
      [] section = "interfaces" -> node.interfaces
      [] section = "possibleTypes" -> node.possibleTypes

---------------------------------------------------------------------------
(* Introspection documents. *)

Query == <<"Q", "u", "e", "r", "y">>
DeviceType == <<"D", "e", "v", "i", "c", "e", "T", "y", "p", "e">>
CableType == <<"C", "a", "b", "l", "e", "T", "y", "p", "e">>
ID == <<"I", "D">>
Node == <<"N", "o", "d", "e">>
SearchResult == <<"S", "e", "a", "r", "c", "h", "R", "e", "s", "u", "l", "t">>
MetaType == <<"_", "_", "T", "y", "p", "e">>

Named(kind, name) == << [kind |-> kind, name |-> name] >>
NonNull(ref) == << [kind |-> "NON_NULL", name |-> Null] >> \o ref
ListOf(ref) == << [kind |-> "LIST", name |-> Null] >> \o ref
NullRef == << >>

Fld(name, type) == [name |-> name, type |-> type]

RawType(kind, name, fields, interfaces, possibleTypes) ==
    [kind |-> kind, name |-> name, description |-> Undefined,
     fields |-> fields, interfaces |-> interfaces, possibleTypes |-> possibleTypes]

\* The type records documents are made of.  Several records share a name, a
\* document may hold both.
E2EQuery ==
    RawType("OBJECT", Query,
      Some(<< Fld("device", Named("OBJECT", DeviceType)) >>), Some(<< >>), None)
E2EDevice ==
    RawType("OBJECT", DeviceType,
      Some(<< Fld("id", Named("SCALAR", ID)),
              Fld("cable", Named("OBJECT", CableType)) >>), Some(<< >>), None)
E2ECable ==
    RawType("OBJECT", CableType,
      Some(<< Fld("id", Named("SCALAR", ID)) >>), Some(<< >>), None)
ScalarID == RawType("SCALAR", ID, None, None, None)

TypePool ==
    << E2EQuery,
       RawType("OBJECT", Query,
         Some(<< Fld("device", NonNull(Named("OBJECT", DeviceType))),
                 Fld("cables", NonNull(ListOf(NonNull(Named("OBJECT", CableType))))),
                 Fld("search", Named("UNION", SearchResult)) >>), Some(<< >>), None),
       E2EDevice,
       RawType("OBJECT", DeviceType,
         Some(<< Fld("id", NonNull(Named("SCALAR", ID))),
                 Fld("parent", Named("OBJECT", DeviceType)),
                 Fld("query", Named("OBJECT", Query)),
                 Fld("broken", ListOf(NullRef)) >>),
         Some(<< Named("INTERFACE", Node) >>), None),
       E2ECable,
       RawType("OBJECT", CableType,
         Some(<< Fld("a", Named("OBJECT", DeviceType)),
                 Fld("b", Named("OBJECT", DeviceType)),
                 Fld("meta", Named("OBJECT", MetaType)) >>),
         Some(<< Named("INTERFACE", Node), Named("INTERFACE", Null) >>), None),
       ScalarID,
       RawType("INTERFACE", Node,
         Some(<< Fld("id", Named("SCALAR", ID)) >>), Some(<< Named("INTERFACE", Node) >>),
         Some(<< Named("OBJECT", DeviceType), Named("OBJECT", CableType) >>)),
       RawType("UNION", SearchResult, Some(<< >>), None,
         Some(<< Named("OBJECT", DeviceType), NullRef, Named("OBJECT", Unknown) >>)),
       RawType("OBJECT", MetaType,
         Some(<< Fld("ofType", Named("OBJECT", MetaType)),
                 Fld("device", Named("OBJECT", DeviceType)) >>), Some(<< >>), None),
       RawType("OBJECT", Unknown,
         Some(<< Fld("query", Named("OBJECT", Query)) >>), Some(<< >>), None),
       RawType("SCALAR", ID,
         Some(<< Fld("owner", Named("OBJECT", DeviceType)) >>), None, None) >>

\* The elements of a set of indices, in increasing order.
RECURSIVE Ascending(_)
Ascending(S) ==
    IF S = {} THEN << >>
    ELSE LET least == CHOOSE i \in S : \A j \in S : i <= j
         IN  << least >> \o Ascending(S \ {least})

\* Every list of at most MaxTypes records of the pool, in pool order.
TypeLists ==
    { [i \in 1..Len(Ascending(S)) |-> TypePool[Ascending(S)[i]]] :
        S \in { T \in SUBSET (1..Len(TypePool)) : Cardinality(T) <= MaxTypes } }

QueryTypes ==
    { [defined |-> FALSE, name |-> Null],
      [defined |-> TRUE, name |-> Query],
      [defined |-> TRUE, name |-> DeviceType],
      [defined |-> TRUE, name |-> MetaType],
      [defined |-> TRUE, name |-> << >>] }

Docs ==
    { [hasSchema |-> TRUE, types |-> Some(ts), queryType |-> q] :
        ts \in TypeLists, q \in QueryTypes }
    \cup { [hasSchema |-> TRUE, types |-> None, queryType |-> q] : q \in QueryTypes }
    \cup { [hasSchema |-> FALSE, types |-> None, queryType |-> q] : q \in QueryTypes }

\* Type references: at most MaxWrap wrappers around a named leaf, around a
\* leaf without a name, or around nothing (the innermost ofType is missing).
WrapperChains ==
    UNION { { [i \in 1..n |-> [kind |-> kinds[i], name |-> Null]] :
                kinds \in [1..n -> {"LIST", "NON_NULL"}] } : n \in 0..MaxWrap }
Leaves == { Named("OBJECT", Query), Named("SCALAR", ID), Named("OBJECT", Null), NullRef }
TypeRefs == { chain \o leaf : chain \in WrapperChains, leaf \in Leaves }

---------------------------------------------------------------------------
(* visualization/toReactFlow *)

NODE_WIDTH == 250
NODE_HEIGHT == 150

TypeSuffix == <<"T", "y", "p", "e">>
LabelImplements == <<"i", "m", "p", "l", "e", "m", "e", "n", "t", "s">>
LabelMember == <<"m", "e", "m", "b", "e", "r">>
DashImplements == <<"5", ",", "5">>
DashUnion == <<"3", ",", "3">>

\* Math.ceil(Math.sqrt(n))
CeilSqrt(n) == CHOOSE c \in 0..n : c * c >= n /\ (c = 0 \/ (c - 1) * (c - 1) < n)

\* The decimal digits of a number, as a template literal prints it.
RECURSIVE Digits(_)
Digits(n) ==
    LET digit == <<"0", "1", "2", "3", "4", "5", "6", "7", "8", "9">>[(n % 10) + 1]
    IN  IF n < 10 THEN << digit >> ELSE Digits(n \div 10) \o << digit >>

simpleGridLayout(flowNodes) ==
    LET COLS == CeilSqrt(Len(flowNodes))
    IN  [i \in 1..Len(flowNodes) |->
            LET index == i - 1
            IN  [flowNodes[i] EXCEPT
                    !.position = [x |-> (index % COLS) * NODE_WIDTH,
                                  y |-> (index \div COLS) * NODE_HEIGHT]]]

layoutNodes(flowNodes, flowEdges) == simpleGridLayout(flowNodes)

cleanTypeName(name) ==
    IF EndsWith(name, TypeSuffix) /\ name # TypeSuffix
    THEN SubSeq(name, 1, Len(name) - 4)
    ELSE name

getEdgeLabel(edge) ==
    IF edge.edgeType = FIELD /\ ~Falsy(edge.fieldName) THEN edge.fieldName
    ELSE IF edge.edgeType = IMPLEMENTS THEN LabelImplements
    ELSE IF edge.edgeType = UNION_MEMBER THEN LabelMember
    ELSE Undefined

\* Edge styles with the dash patterns of IMPLEMENTS and UNION_MEMBER exchanged.
getEdgeStyleSwapped(edgeType) ==
    CASE edgeType = FIELD ->
            [stroke |-> "#2563eb", strokeWidth |-> 2, strokeDasharray |-> Undefined]
      [] edgeType = IMPLEMENTS ->
            [stroke |-> "#16a34a", strokeWidth |-> 2, strokeDasharray |-> DashUnion]
      [] edgeType = UNION_MEMBER ->
            [stroke |-> "#dc2626", strokeWidth |-> 2, strokeDasharray |-> DashImplements]
      [] OTHER ->
            [stroke |-> "#64748b", strokeWidth |-> 1, strokeDasharray |-> Undefined]

getEdgeStyle(edgeType) ==
    CASE edgeType = FIELD ->
            [stroke |-> "#2563eb", strokeWidth |-> 2, strokeDasharray |-> Undefined]
      [] edgeType = IMPLEMENTS ->
            [stroke |-> "#16a34a", strokeWidth |-> 2, strokeDasharray |-> DashImplements]
      [] edgeType = UNION_MEMBER ->
            [stroke |-> "#dc2626", strokeWidth |-> 2, strokeDasharray |-> DashUnion]
      [] OTHER ->
            [stroke |-> "#64748b", strokeWidth |-> 1, strokeDasharray |-> Undefined]

\* An edge identifier made of the endpoints alone.
EdgeIdWithoutIndex(edge, index) ==
    <<"e", "-">> \o edge.source \o <<"-">> \o edge.target

\* `e-${edge.source}-${edge.target}-${index}`
EdgeId(edge, index) ==
    <<"e", "-">> \o edge.source \o <<"-">> \o edge.target \o <<"-">> \o Digits(index)

\* The conversion with the edges in reverse order.
toReactFlowEdgesReversed(graphEdges) ==
    [i \in 1..Len(graphEdges) |->
        LET edge == graphEdges[Len(graphEdges) + 1 - i]
        IN  [id |-> EdgeId(edge, i - 1),
             source |-> edge.source,
             target |-> edge.target,
             type |-> "smoothstep",
             label |-> getEdgeLabel(edge),
             animated |-> edge.edgeType = FIELD,
             style |-> getEdgeStyle(edge.edgeType)]]

\* graph.edges.map((edge, index) => ...)
toReactFlowEdges(graphEdges) ==
    [i \in 1..Len(graphEdges) |->
        LET edge == graphEdges[i]
        IN  [id |-> EdgeId(edge, i - 1),
             source |-> edge.source,
             target |-> edge.target,
             type |-> "smoothstep",
             label |-> getEdgeLabel(edge),
             animated |-> edge.edgeType = FIELD,
             style |-> getEdgeStyle(edge.edgeType)]]

\* Array.from(graph.nodes.values()).map(...)
toReactFlowNodes(graphNodes) ==
    [i \in 1..Len(graphNodes) |->
        LET typeNode == graphNodes[i].value
        IN  [id |-> typeNode.name,
             type |-> "default",
             data |-> [label |-> cleanTypeName(typeNode.name),
                       kind |-> typeNode.kind,
                       fields |-> typeNode.fields,
                       isRelay |-> typeNode.isRelay,
                       isBuiltIn |-> typeNode.isBuiltIn,
                       description |-> typeNode.description],
             position |-> [x |-> 0, y |-> 0]]]

toReactFlow(graph) ==
    LET reactFlowNodes == toReactFlowNodes(graph.nodes)
        reactFlowEdges == toReactFlowEdges(graph.edges)
    IN  [nodes |-> layoutNodes(reactFlowNodes, reactFlowEdges),
         edges |-> reactFlowEdges]

---------------------------------------------------------------------------
(* app/hooks/useFilteredGraph, app/components/Controls *)

\* The filters of SchemaVisualizer when it mounts.
InitialFilters ==
    [showFields |-> TRUE, showImplements |-> TRUE, showUnions |-> TRUE,
     hideBuiltIns |-> TRUE, hideRelay |-> TRUE]

FilterKeys == {"showFields", "showImplements", "showUnions", "hideBuiltIns", "hideRelay"}

\* onChange({ ...filters, [key]: event.target.checked })
handleChange(filterState, key, checked) == [filterState EXCEPT ![key] = checked]

NodeIsShown(node, filterState) ==
    IF filterState.hideBuiltIns /\ node.data.isBuiltIn THEN FALSE
    ELSE IF filterState.hideRelay /\ node.data.isRelay THEN FALSE
    ELSE TRUE

\* The edge filter without its test of the endpoints.
EdgeIsShownWhateverItsEnds(edge, visibleNodeIds, filterState) ==
    LET isFieldEdge == edge.animated = TRUE
        isImplementsEdge == edge.style.strokeDasharray = DashImplements
        isUnionEdge == edge.style.strokeDasharray = DashUnion
    IN  IF isFieldEdge /\ ~filterState.showFields THEN FALSE
        ELSE IF isImplementsEdge /\ ~filterState.showImplements THEN FALSE
        ELSE IF isUnionEdge /\ ~filterState.showUnions THEN FALSE
        ELSE TRUE

EdgeIsShown(edge, visibleNodeIds, filterState) ==
    LET isFieldEdge == edge.animated = TRUE
        isImplementsEdge == edge.style.strokeDasharray = DashImplements
        isUnionEdge == edge.style.strokeDasharray = DashUnion
    IN  IF edge.source \notin visibleNodeIds \/ edge.target \notin visibleNodeIds THEN FALSE
        ELSE IF isFieldEdge /\ ~filterState.showFields THEN FALSE
        ELSE IF isImplementsEdge /\ ~filterState.showImplements THEN FALSE
        ELSE IF isUnionEdge /\ ~filterState.showUnions THEN FALSE
        ELSE TRUE

useFilteredGraph(flowNodes, flowEdges, filterState) ==
    LET KeepNode(node) == NodeIsShown(node, filterState)
        filteredNodes == SelectSeq(flowNodes, KeepNode)
        visibleNodeIds == {filteredNodes[i].id : i \in 1..Len(filteredNodes)}
        KeepEdge(edge) == EdgeIsShown(edge, visibleNodeIds, filterState)
    IN  [nodes |-> filteredNodes, edges |-> SelectSeq(flowEdges, KeepEdge)]

NoFlow == [nodes |-> << >>, edges |-> << >>]

---------------------------------------------------------------------------
(* One call of extractGraph. *)

VARIABLES
    doc,        \* introspectionData.data.__schema, the argument of the call
    pc,         \* "start", "loop", "fields", "interfaces", "possibleTypes", "done", "failed"
    error,      \* the message of the Error thrown, when pc = "failed"
    typeMap,    \* Map: type name -> raw record
    nodes,      \* Map: type name -> TypeNode
    edges,      \* Edge[]
    visited,    \* Set of type names
    queue,      \* string[]
    rootNode,   \* the TypeNode of the root
    cur,        \* currentTypeName
    idx,        \* position in the array the current loop iterates
    created,    \* log: the names createTypeNode was called for
    enqueued,   \* log: the names pushed on the queue
    expanded,   \* log: the names shifted off the queue
    parsed,     \* the value parseIntrospection returned
    arg,        \* the argument of a call of a function on its own
    result,     \* what that call returned
    returned,   \* log: what the calls before this one were given and returned
    pending,    \* the documents still to be extracted after this one
    flow,       \* App's data: the ReactFlowData toReactFlow made of the returned graph
    filters     \* the FilterState handed to useFilteredGraph

vars == <<doc, pc, error, typeMap, nodes, edges, visited, queue, rootNode, cur, idx,
          created, enqueued, expanded, parsed, arg, result, returned, pending,
          flow, filters>>

\* The variables no step of a call of extractGraph touches.
callVars == <<arg, result, returned, pending, flow, filters>>

NoNode == createTypeNode(RawType("SCALAR", Undefined, None, None, None))

NotParsed == [types |-> << >>, queryTypeName |-> Null]

\* The locals of extractGraph before the call.
Locals ==
    /\ error = NoError
    /\ typeMap = << >>
    /\ nodes = << >>
    /\ edges = << >>
    /\ visited = {}
    /\ queue = << >>
    /\ rootNode = NoNode
    /\ cur = Undefined
    /\ idx = 0
    /\ created = << >>
    /\ enqueued = << >>
    /\ expanded = << >>
    /\ parsed = NotParsed

\* Nothing was called, returned or rendered before.
Outside ==
    /\ arg = NullRef
    /\ result = Null
    /\ returned = << >>
    /\ pending = << >>
    /\ flow = NoFlow
    /\ filters = InitialFilters

Init ==
    /\ doc \in Docs
    /\ pc = "start"
    /\ Locals
    /\ Outside

Fail(message) ==
    /\ pc' = "failed"
    /\ error' = message
    /\ UNCHANGED <<nodes, edges, visited, queue, rootNode, created, enqueued>>

\* Parse, find the root, create its node and enqueue it.
Begin ==
    /\ pc = "start"
    /\ UNCHANGED <<doc, cur, idx, expanded, callVars>>
    /\ IF ParseFails(doc)
       THEN Fail(ErrInvalidInput) /\ UNCHANGED <<typeMap, parsed>>
       ELSE /\ parsed' = parseIntrospection(doc)
            /\ IF parsed'.queryTypeName = Null
               THEN Fail(ErrNoRootType) /\ UNCHANGED typeMap
               ELSE /\ typeMap' = BuildTypeMap(<< >>, parsed'.types)
                    /\ IF ~MapHas(typeMap', parsed'.queryTypeName)
                       THEN Fail(ErrRootTypeNotFound(parsed'.queryTypeName))
                       ELSE IF createTypeNodeThrows(MapGet(typeMap', parsed'.queryTypeName))
                       THEN \E absent \in AbsentValues : Fail(ErrTypeError(absent))
                       ELSE LET root == createTypeNode(MapGet(typeMap', parsed'.queryTypeName))
                            IN  /\ rootNode' = root
                                /\ nodes' = MapSet(nodes, root.name, root)
                                /\ visited' = visited \cup {root.name}
                                /\ queue' = Append(queue, root.name)
                                /\ created' = Append(created, root.name)
                                /\ enqueued' = Append(enqueued, root.name)
                                /\ edges' = edges
                                /\ pc' = "loop"
                                /\ error' = error

\* const currentTypeName = queue.shift()
Dequeue ==
    /\ pc = "loop"
    /\ LoopCondition(queue)
    /\ cur' = Shift(queue).head
    /\ queue' = Shift(queue).rest
    /\ expanded' = Append(expanded, Shift(queue).head)
    /\ pc' = "fields"
    /\ idx' = 1
    /\ UNCHANGED <<doc, error, typeMap, nodes, edges, visited, rootNode, created, enqueued,
                   parsed, callVars>>

currentNode == MapGet(nodes, cur)

Bundle ==
    [nodes |-> nodes, edges |-> edges, visited |-> visited, queue |-> queue,
     created |-> created, enqueued |-> enqueued]

Unbundle(g) ==
    /\ nodes' = g.nodes
    /\ edges' = g.edges
    /\ visited' = g.visited
    /\ queue' = g.queue
    /\ created' = g.created
    /\ enqueued' = g.enqueued

HasNext(section) ==
    /\ pc = section
    /\ SectionItems(currentNode, section).defined
    /\ idx <= Len(SectionItems(currentNode, section).items)

\* The body of a relationship loop, or the TypeError of the createTypeNode it calls.
Iterate(target, edgeType, fieldName) ==
    IF ShouldAdd(visited, typeMap, target) /\ createTypeNodeThrows(MapGet(typeMap, target))
    THEN /\ \E absent \in AbsentValues : Fail(ErrTypeError(absent))
         /\ UNCHANGED idx
    ELSE /\ Unbundle(Relate(Bundle, typeMap, cur, target, edgeType, fieldName))
         /\ idx' = idx + 1
         /\ UNCHANGED <<pc, error>>

\* One iteration of: for (const field of currentNode.fields)
ExtractFieldEdge ==
    /\ HasNext("fields")
    /\ LET field == currentNode.fields.items[idx]
       IN  Iterate(field.typeName, FIELD, field.name)
    /\ UNCHANGED <<doc, typeMap, rootNode, cur, expanded, parsed, callVars>>

\* One iteration of: for (const interfaceName of currentNode.interfaces)
ExtractInterfaceEdge ==
    /\ HasNext("interfaces")
    /\ LET interfaceName == currentNode.interfaces.items[idx]
       IN  Iterate(interfaceName, IMPLEMENTS, Undefined)
    /\ UNCHANGED <<doc, typeMap, rootNode, cur, expanded, parsed, callVars>>

\* One iteration of: for (const memberName of currentNode.possibleTypes)
ExtractUnionMemberEdge ==
    /\ HasNext("possibleTypes")
    /\ LET memberName == currentNode.possibleTypes.items[idx]
       IN  Iterate(memberName, UNION_MEMBER, Undefined)
    /\ UNCHANGED <<doc, typeMap, rootNode, cur, expanded, parsed, callVars>>

\* A relationship loop is skipped (its array is undefined) or exhausted.
EndSection ==
    /\ pc \in {"fields", "interfaces", "possibleTypes"}
    /\ ~HasNext(pc)
    /\ pc' = SectionAfter(pc)
    /\ idx' = 1
    /\ UNCHANGED <<doc, error, typeMap, nodes, edges, visited, queue, rootNode, cur,
                   created, enqueued, expanded, parsed, callVars>>

\* The queue is empty: return { nodes, edges, rootType: rootNode }.
Return ==
    /\ pc = "loop"
    /\ ~LoopCondition(queue)
    /\ pc' = "done"
    /\ UNCHANGED <<doc, error, typeMap, nodes, edges, visited, queue, rootNode, cur, idx,
                   created, enqueued, expanded, parsed, callVars>>

Next ==
    \/ Begin
    \/ Dequeue
    \/ ExtractFieldEdge
    \/ ExtractInterfaceEdge
    \/ ExtractUnionMemberEdge
    \/ EndSection
    \/ Return

Spec == Init /\ [][Next]_vars

\* The call runs to its end: no step of it is postponed for ever.
FairSpec == Spec /\ WF_vars(Next)

---------------------------------------------------------------------------
(* One call of unwrapType on its own. *)

NoDoc == [hasSchema |-> FALSE, types |-> None, queryType |-> [defined |-> FALSE, name |-> Null]]

\* The variables a call of a function on its own leaves alone.
restVars == <<doc, error, typeMap, nodes, edges, visited, queue, rootNode, cur, idx,
              created, enqueued, expanded, parsed, pending, flow, filters>>

UnwrapInit ==
    /\ arg \in TypeRefs
    /\ result = Null
    /\ pc = "call"
    /\ doc = NoDoc
    /\ Locals
    /\ returned = << >>
    /\ pending = << >>
    /\ flow = NoFlow
    /\ filters = InitialFilters

CallUnwrapType ==
    /\ pc = "call"
    /\ result' = unwrapType(arg)
    /\ pc' = "returned"
    /\ UNCHANGED <<restVars, arg, returned>>

UnwrapSpec == UnwrapInit /\ [][CallUnwrapType]_vars

---------------------------------------------------------------------------
(* What the properties speak of, defined from the document and the graph. *)

NoDuplicates(s) == \A i, j \in 1..Len(s) : i # j => s[i] # s[j]

IndexOfKey(m, k) == CHOOSE i \in 1..Len(m) : m[i].key = k

\* The record a name stands for: the last record of that name in the type
\* list that is no meta-type.
HasRecord(d, n) ==
    /\ d.hasSchema
    /\ d.types.defined
    /\ ~StartsWith(n, MetaPrefix)
    /\ \E i \in 1..Len(d.types.items) : d.types.items[i].name = n
RecordOf(d, n) ==
    LET at == {i \in 1..Len(d.types.items) : d.types.items[i].name = n}
    IN  d.types.items[CHOOSE i \in at : \A j \in at : j <= i]

\* The names a raw record refers to by its fields, interfaces and union members.
RawTargets(record) ==
    ({unwrapType(record.fields.items[i].type) : i \in 1..Len(record.fields.items)}
        \cup {unwrapType(record.interfaces.items[i]) : i \in 1..Len(record.interfaces.items)}
        \cup {unwrapType(record.possibleTypes.items[i]) :
                i \in 1..Len(record.possibleTypes.items)})
    \ {Null}

\* The names with a record that are reached from the names of S through
\* names with a record.
RECURSIVE ReachableRecords(_, _)
ReachableRecords(d, S) ==
    LET T == S \cup {t \in UNION {RawTargets(RecordOf(d, n)) : n \in S} : HasRecord(d, t)}
    IN  IF T = S THEN S ELSE ReachableRecords(d, T)

RootResolves(d) == d.queryType.defined /\ HasRecord(d, d.queryType.name)

\* The names a node refers to.
NodeTargets(node) ==
    {node.fields.items[i].typeName : i \in 1..Len(node.fields.items)}
        \cup Range(node.interfaces.items) \cup Range(node.possibleTypes.items)

\* The names reached from the names of S along the edges es.
RECURSIVE ReachableByEdges(_, _)
ReachableByEdges(es, S) ==
    LET T == S \cup {es[i].target : i \in {j \in 1..Len(es) : es[j].source \in S}}
    IN  IF T = S THEN S ELSE ReachableByEdges(es, T)

\* Two different nodes refer to each other; a node refers to itself.
HasCycle ==
    \E i, j \in 1..Len(edges) :
        /\ edges[i].source = edges[j].target
        /\ edges[i].target = edges[j].source
        /\ edges[i].source # edges[i].target
        /\ MapHas(nodes, edges[i].source)
        /\ MapHas(nodes, edges[i].target)
HasSelfReference ==
    \E i \in 1..Len(edges) : edges[i].source = edges[i].target /\ MapHas(nodes, edges[i].source)

---------------------------------------------------------------------------
(* Claims. *)

\* C1: during a run of extractGraph no type name is enqueued twice, none is
\* dequeued twice, none is normalized into a node twice, and the node mapping
\* holds no name twice.
C1_VisitedOnce ==
    /\ NoDuplicates(enqueued)
    /\ NoDuplicates(expanded)
    /\ NoDuplicates(created)
    /\ NoDuplicates(MapKeys(nodes))

\* A finished extraction of a schema with a cycle and a self-reference.
C1_Witness == pc = "done" /\ HasCycle /\ HasSelfReference

\* C2: when the root type resolves, the extraction terminates: it expands no
\* more names than the lookup table holds, and the queue becomes empty and the
\* graph is returned.
C2_Terminates ==
    /\ [](Len(expanded) <= Len(typeMap))
    /\ (pc = "start" /\ RootResolves(doc)) ~> (pc = "done" /\ queue = << >>)

\* A finished extraction of a cyclic schema that expanded every type of the table.
C2_Witness ==
    pc = "done" /\ HasCycle /\ queue = << >> /\ Len(expanded) = Len(typeMap) /\ Len(typeMap) >= 3

\* C3: in a returned graph every name with a record that is reachable from
\* the root through names with records is a key of the node mapping.
C3_ReachableArePresent ==
    pc = "done" => ReachableRecords(doc, {doc.queryType.name}) \subseteq KeySet(nodes)

\* A returned graph with a node that the root does not refer to directly.
C3_Witness ==
    /\ pc = "done"
    /\ \E k \in KeySet(nodes) :
          /\ k # rootNode.name
          /\ k \notin RawTargets(RecordOf(doc, rootNode.name))
          /\ k \in ReachableRecords(doc, {doc.queryType.name})

\* C4: in a returned graph the root is the first node, every other node is
\* the target of an edge whose source is a node added before it, every node
\* is reached from the root along the edges, and every node but the root is
\* referred to by a node.
C4_NodesReachable ==
    pc = "done" =>
        /\ nodes[1].key = rootNode.name
        /\ \A i \in 2..Len(nodes) :
              \E e \in 1..Len(edges) :
                  /\ edges[e].target = nodes[i].key
                  /\ MapHas(nodes, edges[e].source)
                  /\ IndexOfKey(nodes, edges[e].source) < i
        /\ KeySet(nodes) \subseteq ReachableByEdges(edges, {rootNode.name})
        /\ \A i \in 2..Len(nodes) :
              \E j \in 1..Len(nodes) : nodes[i].key \in NodeTargets(nodes[j].value)

\* A returned graph of three nodes or more, of a document that declares a
\* type that is no node.
C4_Witness ==
    /\ pc = "done"
    /\ Len(nodes) >= 3
    /\ \E i \in 1..Len(doc.types.items) :
          /\ HasRecord(doc, doc.types.items[i].name)
          /\ ~MapHas(nodes, doc.types.items[i].name)

\* The target and the edge of the loop iteration that is about to run.
StepTarget ==
    IF pc = "fields" THEN currentNode.fields.items[idx].typeName
    ELSE SectionItems(currentNode, pc).items[idx]
StepEdge ==
    [source |-> cur, target |-> StepTarget,
     edgeType |-> CASE pc = "fields" -> FIELD
                    [] pc = "interfaces" -> IMPLEMENTS
                    [] pc = "possibleTypes" -> UNION_MEMBER,
     fieldName |-> IF pc = "fields" THEN currentNode.fields.items[idx].name ELSE Undefined]

\* C5: an iteration whose target has no record appends the edge, adds no
\* node, enqueues nothing and does not fail; nothing fails once the traversal
\* has begun.
C5_DanglingEdgeKept ==
    [][ /\ (pc \in {"fields", "interfaces", "possibleTypes"} /\ HasNext(pc)
              /\ ~HasRecord(doc, StepTarget))
           => /\ edges' = Append(edges, StepEdge)
              /\ nodes' = nodes
              /\ queue' = queue
              /\ visited' = visited
        /\ pc # "start" => pc' # "failed" ]_vars

Dangling(e) == ~MapHas(nodes, e.target) /\ ~HasRecord(doc, e.target)

\* A returned graph with a dangling edge of each kind.
C5_Witness ==
    /\ pc = "done"
    /\ \A kind \in {FIELD, IMPLEMENTS, UNION_MEMBER} :
          \E i \in 1..Len(edges) : edges[i].edgeType = kind /\ Dangling(edges[i])

EdgesFrom(es, s) == LET From(e) == e.source = s IN SelectSeq(es, From)

\* The edges of a node: its fields, its interfaces, its union members.
ExpectedEdges(s, node) ==
    [i \in 1..Len(node.fields.items) |->
        [source |-> s, target |-> node.fields.items[i].typeName, edgeType |-> FIELD,
         fieldName |-> node.fields.items[i].name]]
    \o [i \in 1..Len(node.interfaces.items) |->
        [source |-> s, target |-> node.interfaces.items[i], edgeType |-> IMPLEMENTS,
         fieldName |-> Undefined]]
    \o [i \in 1..Len(node.possibleTypes.items) |->
        [source |-> s, target |-> node.possibleTypes.items[i], edgeType |-> UNION_MEMBER,
         fieldName |-> Undefined]]

\* The names whose expansion is complete.
Expanded == {s \in Range(expanded) : s # cur \/ pc \in {"loop", "done"}}

\* C6: the edges of an expanded node are its FIELD edges in the order of its
\* fields, then its IMPLEMENTS edges in the order of its interfaces, then its
\* UNION_MEMBER edges in the order of its members.
C6_EdgeOrderOfANode ==
    \A s \in Expanded : EdgesFrom(edges, s) = ExpectedEdges(s, MapGet(nodes, s))

\* A returned graph with a node that has two fields of different targets, an
\* interface and a union member.
C6_Witness ==
    /\ pc = "done"
    /\ \E i \in 1..Len(nodes) :
          LET node == nodes[i].value
          IN  /\ Len(node.fields.items) >= 1
              /\ Len(node.interfaces.items) >= 1
              /\ Len(node.possibleTypes.items) >= 1
    /\ \E i \in 1..Len(nodes) :
          LET node == nodes[i].value
          IN  /\ Len(node.fields.items) >= 2
              /\ node.fields.items[1].typeName # node.fields.items[2].typeName

\* The number of edges on a shortest path from the names of S to n along the
\* edges es, counted from k; -1 when there is no path.
RECURSIVE Distance(_, _, _, _)
Distance(es, S, n, k) ==
    IF n \in S THEN k
    ELSE LET T == S \cup {es[i].target : i \in {j \in 1..Len(es) : es[j].source \in S}}
         IN  IF T = S THEN -1 ELSE Distance(es, T, n, k + 1)

DistanceFromRoot(n) == Distance(edges, {rootNode.name}, n, 0)

\* The sources of the edges, a run of equal sources counted once.
SourceBlocks ==
    LET first == {i \in 1..Len(edges) : i = 1 \/ edges[i - 1].source # edges[i].source}
    IN  [k \in 1..Cardinality(first) |-> edges[Ascending(first)[k]].source]

\* C7: in the returned edge sequence the edges of one source are contiguous,
\* the blocks are in the order in which the sources were dequeued, the root's
\* edges are first, and the distance of the source from the root never
\* decreases.
C7_EdgeBlocksBreadthFirst ==
    pc = "done" =>
        /\ \A i, j, k \in 1..Len(edges) :
              (i < j /\ j < k /\ edges[i].source = edges[k].source)
                  => edges[j].source = edges[i].source
        /\ LET HasEdges(s) == \E i \in 1..Len(edges) : edges[i].source = s
           IN  SourceBlocks = SelectSeq(expanded, HasEdges)
        /\ edges # << >> => edges[1].source = rootNode.name
        /\ \A i, j \in 1..Len(edges) :
              i < j => DistanceFromRoot(edges[i].source) <= DistanceFromRoot(edges[j].source)

\* A returned graph with edges from two sources next to the root and, after
\* them, edges from a source two steps from the root.
C7_Witness ==
    /\ pc = "done"
    /\ \E i, j, k \in 1..Len(edges) :
          /\ i < j /\ j < k
          /\ edges[i].source # edges[j].source
          /\ DistanceFromRoot(edges[i].source) = 1
          /\ DistanceFromRoot(edges[j].source) = 1
          /\ DistanceFromRoot(edges[k].source) = 2

\* The number of relationships of a raw record: its fields, and its interface
\* and member references that resolve to a name.
RelationshipCount(record) ==
    LET Resolves(ref) == unwrapType(ref) # Null
    IN  Len(record.fields.items) + Len(SelectSeq(record.interfaces.items, Resolves))
            + Len(SelectSeq(record.possibleTypes.items, Resolves))

\* C8: a returned graph has, for every node, as many edges from it as its
\* record has fields, interfaces and union members, and, for every field of
\* the record, as many FIELD edges from the node with that field name as the
\* record has fields of that name; the graph has no other edge.
C8_OneEdgePerRelationship ==
    pc = "done" =>
        /\ \A s \in KeySet(nodes) :
              LET record == RecordOf(doc, s)
                  from == EdgesFrom(edges, s)
              IN  /\ Len(from) = RelationshipCount(record)
                  /\ \A i \in 1..Len(record.fields.items) :
                        Cardinality({j \in 1..Len(from) :
                            /\ from[j].edgeType = FIELD
                            /\ from[j].fieldName = record.fields.items[i].name})
                        = Cardinality({j \in 1..Len(record.fields.items) :
                            record.fields.items[j].name = record.fields.items[i].name})
        /\ \A i \in 1..Len(edges) : MapHas(nodes, edges[i].source)

\* A returned graph with two FIELD edges of different field names that share
\* source and target.
C8_Witness ==
    /\ pc = "done"
    /\ \E i, j \in 1..Len(edges) :
          /\ i # j
          /\ edges[i].source = edges[j].source
          /\ edges[i].target = edges[j].target
          /\ edges[i].edgeType = FIELD
          /\ edges[j].edgeType = FIELD
          /\ edges[i].fieldName # edges[j].fieldName

\* The documents of the end-to-end scenario, ID undeclared and declared.
E2EDoc ==
    [hasSchema |-> TRUE, types |-> Some(<< E2EQuery, E2EDevice, E2ECable >>),
     queryType |-> [defined |-> TRUE, name |-> Query]]
E2EDocWithID ==
    [hasSchema |-> TRUE, types |-> Some(<< E2EQuery, E2EDevice, E2ECable, ScalarID >>),
     queryType |-> [defined |-> TRUE, name |-> Query]]

FieldEdge(source, target, fieldName) ==
    [source |-> source, target |-> target, edgeType |-> FIELD, fieldName |-> fieldName]

\* C9 as claimed: the scenario without ID gives the three nodes and exactly
\* the two edges to DeviceType and CableType; with ID declared it gives the ID
\* node and the edges to ID as well.
C9_TwoEdgesWithoutID ==
    /\ (pc = "done" /\ doc = E2EDoc) =>
          /\ KeySet(nodes) = {Query, DeviceType, CableType}
          /\ Len(edges) = 2
          /\ Range(edges) = { FieldEdge(Query, DeviceType, "device"),
                              FieldEdge(DeviceType, CableType, "cable") }
    /\ (pc = "done" /\ doc = E2EDocWithID) =>
          /\ KeySet(nodes) = {Query, DeviceType, CableType, ID}
          /\ \E i \in 1..Len(edges) : edges[i].target = ID

\* C9 amended: the scenario gives the three nodes, and the ID node when ID is
\* declared; declared or not, it gives these four FIELD edges in this order:
\* Query to DeviceType, DeviceType to ID, DeviceType to CableType, CableType
\* to ID.
C9_FourEdgesEitherWay ==
    LET four == << FieldEdge(Query, DeviceType, "device"),
                   FieldEdge(DeviceType, ID, "id"),
                   FieldEdge(DeviceType, CableType, "cable"),
                   FieldEdge(CableType, ID, "id") >>
    IN  /\ (pc = "done" /\ doc = E2EDoc) =>
              /\ MapKeys(nodes) = << Query, DeviceType, CableType >>
              /\ edges = four
        /\ (pc = "done" /\ doc = E2EDocWithID) =>
              /\ MapKeys(nodes) = << Query, DeviceType, ID, CableType >>
              /\ edges = four

\* The scenario without ID has returned its graph.
C9_Witness == pc = "done" /\ doc = E2EDoc /\ ~MapHas(nodes, ID)

\* C10: for every field of a node's record whose type reference resolves to
\* null, the node stores the target 'Unknown', the graph has the FIELD edge
\* to 'Unknown', the lookup of 'Unknown' finds nothing and the graph has no
\* node for it.
C10_UnknownHasNoNode ==
    pc = "done" =>
        \A s \in KeySet(nodes) :
            LET record == RecordOf(doc, s)
                node == MapGet(nodes, s)
            IN  \A i \in 1..Len(record.fields.items) :
                    unwrapType(record.fields.items[i].type) = Null
                    => /\ node.fields.items[i].typeName = Unknown
                       /\ \E e \in 1..Len(edges) :
                             edges[e] = FieldEdge(s, Unknown, record.fields.items[i].name)
                       /\ ~MapHas(typeMap, Unknown)
                       /\ ~MapHas(nodes, Unknown)

---------------------------------------------------------------------------
(* Failures *)

\* The call has failed and nothing of a graph exists.
FailedWith(message) ==
    /\ pc = "failed"
    /\ error = message
    /\ nodes = << >>
    /\ edges = << >>
    /\ rootNode = NoNode

\* C11: for a document that has a schema object with a types sequence and no
\* query type, the parser returns with queryTypeName null, and the call fails
\* with 'No query type found in schema' without a graph.
C11_NoQueryTypeFails ==
    (pc # "start" /\ doc.hasSchema /\ doc.types.defined /\ ~doc.queryType.defined)
    => /\ FailedWith(ErrNoRootType)
       /\ parsed.queryTypeName = Null
       /\ Len(parsed.types) <= Len(doc.types.items)

\* The call failed for want of a query type on a schema that lists a type
\* named Query.
C11_Witness ==
    /\ FailedWith(ErrNoRootType)
    /\ ~doc.queryType.defined
    /\ HasRecord(doc, Query)

\* C12: for a document that declares a query type name of which the parsed
\* type list has no record, because none was listed or because the filter
\* removed it, the call fails with 'Root type <that name> not found' without a
\* graph.
C12_MissingRootFails ==
    (/\ pc # "start"
     /\ doc.hasSchema /\ doc.types.defined
     /\ doc.queryType.defined /\ doc.queryType.name # << >>
     /\ ~HasRecord(doc, doc.queryType.name))
    => FailedWith(ErrRootTypeNotFound(doc.queryType.name))

\* The call failed on a root name whose record was listed and removed as a
\* meta-type, beside records that stayed.
C12_Witness ==
    /\ FailedWith(ErrRootTypeNotFound(MetaType))
    /\ doc.queryType.name = MetaType
    /\ \E i \in 1..Len(doc.types.items) : doc.types.items[i].name = MetaType
    /\ parsed.types # << >>

\* C13: for a document without a schema object, or whose schema object has no
\* types sequence, the parser throws 'Invalid introspection data' before it
\* returns anything, and the call fails with that very error.
C13_InvalidInputFails ==
    (pc # "start" /\ (~doc.hasSchema \/ ~doc.types.defined))
    => /\ FailedWith(ErrInvalidInput)
       /\ parsed = NotParsed
       /\ typeMap = << >>

\* The call failed on a schema object that names its query type and has no
\* types sequence.
C13_Witness ==
    /\ FailedWith(ErrInvalidInput)
    /\ doc.hasSchema
    /\ ~doc.types.defined
    /\ doc.queryType.name = Query

\* The graph the call returns lacks nothing: every node was expanded, in the
\* order it was added, nothing waits in the queue, every node has all the
\* edges of its relationships, and the root is the node of the query type.
CompleteGraph ==
    /\ error = NoError
    /\ queue = << >>
    /\ expanded = MapKeys(nodes)
    /\ rootNode = MapGet(nodes, doc.queryType.name)
    /\ \A s \in KeySet(nodes) : EdgesFrom(edges, s) = ExpectedEdges(s, MapGet(nodes, s))
    /\ \A i \in 1..Len(edges) : MapHas(nodes, edges[i].source)

\* C14: a call either goes on, or has returned a complete graph, or has
\* failed with one of the three named errors before any node existed; no
\* other failure occurs, whatever the records leave out or refer to.
C14_ReturnsOrFailsCleanly ==
    /\ pc = "failed" =>
          \E message \in {ErrInvalidInput, ErrNoRootType,
                           ErrRootTypeNotFound(doc.queryType.name)} :
              FailedWith(message)
    /\ pc = "done" => CompleteGraph
    /\ pc \notin {"done", "failed"} => ENABLED Next

\* A returned graph with a node whose record has neither fields nor
\* interfaces nor union members nor a description, and with an edge of each
\* kind to a name without a record.
C14_Witness ==
    /\ pc = "done"
    /\ \E s \in KeySet(nodes) :
          LET record == RecordOf(doc, s)
          IN  /\ ~record.fields.defined
              /\ ~record.interfaces.defined
              /\ ~record.possibleTypes.defined
              /\ record.description = Undefined
    /\ \A kind \in {FIELD, IMPLEMENTS, UNION_MEMBER} :
          \E i \in 1..Len(edges) :
              edges[i].edgeType = kind /\ ~HasRecord(doc, edges[i].target)

---------------------------------------------------------------------------
(* Meta-types *)

\* C15: no key of the node mapping starts with '__', in the returned graph
\* and at every step before.
C15_NoMetaTypeNode == \A key \in KeySet(nodes) : ~StartsWith(key, MetaPrefix)

\* A returned graph of a schema that lists the record '__Type' and has an
\* edge to '__Type'.
C15_Witness ==
    /\ pc = "done"
    /\ \E i \in 1..Len(doc.types.items) : doc.types.items[i].name = MetaType
    /\ \E i \in 1..Len(edges) : edges[i].target = MetaType

\* The positions of the input records whose name does not begin with two
\* underscores.
KeptPositions(items) ==
    {i \in 1..Len(items) :
        ~(Len(items[i].name) >= 2 /\ items[i].name[1] = "_" /\ items[i].name[2] = "_")}

\* The k-th smallest element of a set of positions.
NthOf(positions, k) ==
    CHOOSE i \in positions : Cardinality({j \in positions : j <= i}) = k

\* The parser has returned.
ParserReturned == pc # "start" /\ error # ErrInvalidInput

\* C16: the list the parser returned has one entry per kept position of the
\* input, the k-th entry being the very record at the k-th kept position; and
\* no step changes the input document.
C16_ParserKeepsTheRest ==
    /\ [](ParserReturned =>
            LET items == doc.types.items
                kept == KeptPositions(items)
            IN  /\ Len(parsed.types) = Cardinality(kept)
                /\ \A k \in 1..Len(parsed.types) :
                      parsed.types[k] = items[NthOf(kept, k)])
    /\ [][doc' = doc]_vars

\* The parser returned on a list that has a meta-type between two other
\* records.
C16_Witness ==
    /\ ParserReturned
    /\ Len(parsed.types) = Len(doc.types.items) - 1
    /\ \E i, j, k \in 1..Len(doc.types.items) :
          /\ i < j /\ j < k
          /\ doc.types.items[j].name = MetaType
          /\ doc.types.items[i].name # MetaType
          /\ doc.types.items[k].name # MetaType

---------------------------------------------------------------------------
(* Type references *)

Wrappers(typeRef) == {i \in 1..Len(typeRef) : typeRef[i].kind \in {"LIST", "NON_NULL"}}

\* C17: the call returns null for null and for a chain whose innermost
\* reference is missing (its last layer is a wrapper), and otherwise the name
\* of the innermost layer, however many wrappers of either kind precede it.
C17_UnwrapYieldsLeafName ==
    pc = "returned" =>
        IF arg = << >> \/ Len(arg) \in Wrappers(arg)
        THEN result = Null
        ELSE /\ Wrappers(arg) = 1..(Len(arg) - 1)
             /\ result = arg[Len(arg)].name

\* The call returned the leaf's name from under MaxWrap wrappers of both kinds.
C17_Witness ==
    /\ pc = "returned"
    /\ Len(arg) = MaxWrap + 1
    /\ \E i, j \in Wrappers(arg) : arg[i].kind = "LIST" /\ arg[j].kind = "NON_NULL"
    /\ arg[Len(arg)].name = Query
    /\ result = Query

---------------------------------------------------------------------------
(* The node mapping *)

\* C18: a step leaves every entry of the node mapping in its place with its
\* value; every key was set by one call of nodes.set and no more; and the
\* rootType of the returned graph is the entry of the query type name.
C18_NodesAreNeverReplaced ==
    /\ [][/\ Len(nodes') >= Len(nodes)
          /\ \A i \in 1..Len(nodes) : nodes'[i] = nodes[i]]_vars
    /\ [](created = MapKeys(nodes))
    /\ [](pc = "done" =>
            /\ MapHas(nodes, doc.queryType.name)
            /\ rootNode = MapGet(nodes, doc.queryType.name)
            /\ rootNode = createTypeNode(RecordOf(doc, doc.queryType.name)))

\* A returned graph of three nodes or more in which an edge leads back to the
\* root and two edges lead to one other node.
C18_Witness ==
    /\ pc = "done"
    /\ Len(nodes) >= 3
    /\ \E i \in 1..Len(edges) :
          edges[i].target = rootNode.name /\ edges[i].source # rootNode.name
    /\ \E i, j \in 1..Len(edges) :
          /\ i < j
          /\ edges[i].target = edges[j].target
          /\ edges[i].target # rootNode.name
          /\ MapHas(nodes, edges[i].target)

\* C19: in every state of a call the edges are at least the nodes minus one.
C19_EdgesAtLeastNodesMinusOne == Len(edges) >= Len(nodes) - 1

\* A step of a call at which three nodes or more exist and the edges are
\* exactly one fewer.
C19_Witness ==
    /\ pc \notin {"start", "failed"}
    /\ Len(nodes) >= 3
    /\ Len(edges) = Len(nodes) - 1

\* C20: every edge of a returned graph has a source node whose isComposite
\* flag is true.
C20_EdgesFromCompositeOnly ==
    pc = "done" =>
        \A i \in 1..Len(edges) : MapGet(nodes, edges[i].source).isComposite

---------------------------------------------------------------------------
(* Calls of extractGraph one after another. *)

\* return { nodes, edges, rootType: rootNode }
TypeGraph == [nodes |-> nodes, edges |-> edges, rootType |-> rootNode]

NoGraph == [nodes |-> << >>, edges |-> << >>, rootType |-> NoNode]

\* What a call that has ended hands to its caller: a graph or an error.
Outcome ==
    IF pc = "done"
    THEN [ok |-> TRUE, graph |-> TypeGraph, error |-> NoError]
    ELSE [ok |-> FALSE, graph |-> NoGraph, error |-> error]

\* A visited set that outlives the call, as a module-level set would.
KeptVisited(previous) == previous

\* const visited = new Set<string>(): empty, whatever a call before left behind.
NewVisited(previous) == {}

\* The documents extracted twice: those of at most MaxTypes - 1 records.
CallDocs == {d \in Docs : Len(d.types.items) <= MaxTypes - 1}

\* The documents extracted in between.
OtherDocs == {E2EDoc, E2EDocWithID}

CallsInit ==
    /\ doc \in CallDocs
    /\ pending \in {<< doc >>} \cup {<< other, doc >> : other \in OtherDocs}
    /\ pc = "start"
    /\ Locals
    /\ arg = NullRef
    /\ result = Null
    /\ returned = << >>
    /\ flow = NoFlow
    /\ filters = InitialFilters

\* The caller takes what the call handed back and calls extractGraph on the
\* next document: the call constructs its locals anew.
CallAgain ==
    /\ pc \in {"done", "failed"}
    /\ pending # << >>
    /\ returned' = Append(returned, [doc |-> doc, outcome |-> Outcome])
    /\ doc' = Head(pending)
    /\ pending' = Tail(pending)
    /\ pc' = "start"
    /\ error' = NoError
    /\ typeMap' = << >>
    /\ nodes' = << >>
    /\ edges' = << >>
    /\ visited' = NewVisited(visited)
    /\ queue' = << >>
    /\ rootNode' = NoNode
    /\ cur' = Undefined
    /\ idx' = 0
    /\ created' = << >>
    /\ enqueued' = << >>
    /\ expanded' = << >>
    /\ parsed' = NotParsed
    /\ UNCHANGED <<arg, result, flow, filters>>

CallsNext == Next \/ CallAgain

CallsSpec == CallsInit /\ [][CallsNext]_vars

\* C21: a call that has ended hands back what every earlier call on the same
\* document handed back (node keys in order, node contents, edge sequence,
\* root, or the error); every call starts from locals of its own; and what an
\* earlier call handed back is never changed afterwards.
C21_SameDocumentSameGraph ==
    /\ [](pc \in {"done", "failed"} =>
            \A i \in 1..Len(returned) :
                returned[i].doc = doc => returned[i].outcome = Outcome)
    /\ [](pc = "start" => Locals)
    /\ [][\A i \in 1..Len(returned) : returned'[i] = returned[i]]_vars

\* A third call has returned a graph of three nodes or more for the document
\* of the first call, after a call on another document that returned a graph.
C21_Witness ==
    /\ pc = "done"
    /\ Len(returned) = 2
    /\ returned[1].doc = doc
    /\ returned[2].doc # doc
    /\ returned[1].outcome.ok
    /\ returned[2].outcome.ok
    /\ Len(nodes) >= 3
    /\ Len(edges) > Len(nodes)

---------------------------------------------------------------------------
(* One raw record normalized twice. *)

TypeKinds ==
    {"SCALAR", "OBJECT", "INTERFACE", "UNION", "ENUM", "INPUT_OBJECT", "LIST", "NON_NULL"}

\* Names at and next to every boundary of the three classifications.
TypeNames ==
    BUILT_IN_SCALARS \cup
    { Query, DeviceType, CableType, Unknown, MetaType, MetaPrefix,
      Connection, EdgeSuffix, PageInfo,
      DeviceType \o Connection, DeviceType \o EdgeSuffix,
      Connection \o <<"s">>, EdgeSuffix \o Query, PageInfo \o <<"s">>,
      <<"M", "y">> \o PageInfo, <<"e", "d", "g", "e">>, <<"c", "o", "n", "n", "e", "c", "t", "i", "o", "n">>,
      <<"p", "a", "g", "e", "I", "n", "f", "o">>,
      <<"_">> \o Query, Query \o MetaPrefix, MetaPrefix \o EdgeSuffix,
      <<"I", "d">>, <<"I", "D", "s">>, <<"s", "t", "r", "i", "n", "g">>,
      <<"I", "n", "t", "e", "g", "e", "r">> }

RawRecords == { RawType(kind, name, None, None, None) : kind \in TypeKinds, name \in TypeNames }

NormalizeInit ==
    /\ arg \in RawRecords
    /\ result = Null
    /\ returned = << >>
    /\ pc = "normalize"
    /\ doc = NoDoc
    /\ Locals
    /\ pending = << >>
    /\ flow = NoFlow
    /\ filters = InitialFilters

\* createTypeNode(typeData), once and once more on the same record.
CallCreateTypeNode ==
    /\ pc \in {"normalize", "normalize again"}
    /\ ~createTypeNodeThrows(arg)
    /\ result' = createTypeNode(arg)
    /\ returned' = Append(returned, result')
    /\ pc' = IF pc = "normalize" THEN "normalize again" ELSE "normalized"
    /\ UNCHANGED <<restVars, arg>>

NormalizeSpec == NormalizeInit /\ [][CallCreateTypeNode]_vars

\* The name is the suffix, or something followed by the suffix.
HasSuffix(name, suffix) == \E k \in 0..Len(name) : name = SubSeq(name, 1, k) \o suffix

\* C22: every node createTypeNode made of the record has isComposite true
\* exactly for the kinds OBJECT, INTERFACE and UNION, isRelay true exactly for
\* a name that ends with 'Connection' or 'Edge' or is 'PageInfo', isBuiltIn
\* true exactly for a name that begins with two underscores or is one of the
\* five scalar names; and the second node has the flags of the first.
C22_FlagsAsDefined ==
    /\ \A i \in 1..Len(returned) :
          /\ returned[i].isComposite
                <=> (arg.kind = "OBJECT" \/ arg.kind = "INTERFACE" \/ arg.kind = "UNION")
          /\ returned[i].isRelay
                <=> \/ HasSuffix(arg.name, <<"C", "o", "n", "n", "e", "c", "t", "i", "o", "n">>)
                    \/ HasSuffix(arg.name, <<"E", "d", "g", "e">>)
                    \/ arg.name = <<"P", "a", "g", "e", "I", "n", "f", "o">>
          /\ returned[i].isBuiltIn
                <=> \/ (Len(arg.name) >= 2 /\ arg.name[1] = "_" /\ arg.name[2] = "_")
                    \/ arg.name \in { <<"S", "t", "r", "i", "n", "g">>, <<"I", "n", "t">>,
                                       <<"F", "l", "o", "a", "t">>,
                                       <<"B", "o", "o", "l", "e", "a", "n">>, <<"I", "D">> }
    /\ Len(returned) = 2 =>
          /\ returned[1].isComposite = returned[2].isComposite
          /\ returned[1].isRelay = returned[2].isRelay
          /\ returned[1].isBuiltIn = returned[2].isBuiltIn

\* The OBJECT record 'DeviceTypeConnection' was normalized twice: composite,
\* relay, not built-in.
C22_Witness ==
    /\ pc = "normalized"
    /\ Len(returned) = 2
    /\ arg.kind = "OBJECT"
    /\ arg.name = DeviceType \o Connection
    /\ result.isComposite /\ result.isRelay /\ ~result.isBuiltIn

---------------------------------------------------------------------------
(* The returned graph converted, rendered and filtered. *)

Boolean == <<"B", "o", "o", "l", "e", "a", "n">>

ViewQuery ==
    RawType("OBJECT", Query,
      Some(<< Fld("device", NonNull(Named("OBJECT", DeviceType))),
              Fld("devices", Named("OBJECT", DeviceType \o Connection)),
              Fld("cables", NonNull(ListOf(NonNull(Named("OBJECT", CableType))))),
              Fld("search", Named("UNION", SearchResult)),
              Fld("id", Named("SCALAR", ID)) >>), Some(<< >>), None)

DeviceTypeConnection ==
    RawType("OBJECT", DeviceType \o Connection,
      Some(<< Fld("nodes", ListOf(Named("OBJECT", DeviceType))),
              Fld("pageInfo", NonNull(Named("OBJECT", PageInfo))) >>), Some(<< >>), None)

PageInfoRecord ==
    RawType("OBJECT", PageInfo,
      Some(<< Fld("hasNextPage", NonNull(Named("SCALAR", Boolean))) >>), Some(<< >>), None)

\* The records a rendered schema has beside its Query: the DeviceType,
\* CableType, ID, Node and SearchResult of the pool and two Relay types.
ViewRest ==
    << TypePool[4], TypePool[6], ScalarID, TypePool[8], TypePool[9],
       DeviceTypeConnection, PageInfoRecord >>

\* Query and at most MaxTypes - 1 of the other records.
ViewDocs ==
    { [hasSchema |-> TRUE,
       types |-> Some(<< ViewQuery >> \o
                      [i \in 1..Len(Ascending(S)) |-> ViewRest[Ascending(S)[i]]]),
       queryType |-> [defined |-> TRUE, name |-> Query]] :
        S \in { T \in SUBSET (1..Len(ViewRest)) : Cardinality(T) <= MaxTypes - 1 } }

ConvertInit ==
    /\ doc \in ViewDocs
    /\ pc = "start"
    /\ Locals
    /\ Outside

\* The rest of App's effect after extractGraph returned: the graph is
\* converted and handed to setData.
Convert ==
    /\ pc = "done"
    /\ flow' = toReactFlow(TypeGraph)
    /\ pc' = "converted"
    /\ UNCHANGED <<doc, error, typeMap, nodes, edges, visited, queue, rootNode, cur, idx,
                   created, enqueued, expanded, parsed, arg, result, returned, pending,
                   filters>>

\* The calls of extractGraph App's effect converts, for many documents.
ConvertNext == Next \/ Convert

ConvertSpec == ConvertInit /\ [][ConvertNext]_vars

---------------------------------------------------------------------------
(* SchemaVisualizerContent: the calls of useFilteredGraph on converted graphs. *)

\* How many nodes, and how many edges, of a conversion the arrays handed to
\* useFilteredGraph may lack.
MaxRemoved == 1

\* The schemas whose conversions are filtered. One has a Query with a field
\* of a type without a record and a field of a built-in scalar, an object
\* that implements an interface, and a union of it; the other a Query with a
\* Relay connection of the object.
FilterQuery ==
    RawType("OBJECT", Query,
      Some(<< Fld("device", NonNull(Named("OBJECT", DeviceType))),
              Fld("cable", Named("OBJECT", CableType)),
              Fld("search", Named("UNION", SearchResult)),
              Fld("id", Named("SCALAR", ID)) >>), Some(<< >>), None)

FilterDevice ==
    RawType("OBJECT", DeviceType,
      Some(<< Fld("id", NonNull(Named("SCALAR", ID))) >>),
      Some(<< Named("INTERFACE", Node) >>), None)

FilterNode == RawType("INTERFACE", Node, Some(<< >>), None, None)

FilterSearchResult ==
    RawType("UNION", SearchResult, None, None, Some(<< Named("OBJECT", DeviceType) >>))

FilterRelayQuery ==
    RawType("OBJECT", Query,
      Some(<< Fld("devices", Named("OBJECT", DeviceType \o Connection)),
              Fld("device", Named("OBJECT", DeviceType)) >>), Some(<< >>), None)

FilterDocs ==
    { [hasSchema |-> TRUE,
       types |-> Some(records),
       queryType |-> [defined |-> TRUE, name |-> Query]] :
        records \in { << FilterQuery, FilterDevice, FilterNode, FilterSearchResult,
                         ScalarID >>,
                      << FilterRelayQuery, DeviceTypeConnection, PageInfoRecord,
                         FilterDevice >> } }

FilterInit ==
    /\ doc \in FilterDocs
    /\ pc = "start"
    /\ Locals
    /\ Outside

\* The array without the items at the positions of the set.
Without(items, positions) ==
    LET kept == Ascending((1..Len(items)) \ positions)
    IN  [i \in 1..Len(kept) |-> items[kept[i]]]

\* The sets of at most MaxRemoved positions of an array.
Removals(items) ==
    {positions \in SUBSET (1..Len(items)) : Cardinality(positions) <= MaxRemoved}

\* The arrays a call of the handler useNodesState or useEdgesState returned
\* may leave in the state that holds current, which began as initial: the
\* handler's code is not part of the repository, so the outcome is any array
\* of items of current, in their order, that lacks at most MaxRemoved items
\* of initial.
ChangedStates(initial, current) ==
    LET ids == {current[i].id : i \in 1..Len(current)}
        Kept(changed) == \A i \in 1..Len(changed) : changed[i].id \in ids
    IN  {changed \in {Without(initial, positions) : positions \in Removals(initial)} :
            Kept(changed) /\ changed # current}

\* SchemaVisualizerContent renders for the first time: nodes and edges are
\* the arrays of the conversion, filters are all true, and useFilteredGraph
\* is called with them.
CallUseFilteredGraph ==
    /\ pc = "converted"
    /\ arg' = [nodes |-> flow.nodes, edges |-> flow.edges]
    /\ result' = useFilteredGraph(arg'.nodes, arg'.edges, filters)
    /\ pc' = "filtered"
    /\ UNCHANGED <<doc, error, typeMap, nodes, edges, visited, queue, rootNode, cur, idx,
                   created, enqueued, expanded, parsed, returned, pending, flow, filters>>

\* A switch of Controls is flipped: handleChange hands the new filters to
\* onChange, and the component renders again, calling useFilteredGraph with
\* them on the same arrays.
Toggle ==
    /\ pc = "filtered"
    /\ \E key \in FilterKeys :
          filters' = handleChange(filters, key, ~filters[key])
    /\ result' = useFilteredGraph(arg.nodes, arg.edges, filters')
    /\ UNCHANGED <<doc, pc, error, typeMap, nodes, edges, visited, queue, rootNode, cur, idx,
                   created, enqueued, expanded, parsed, arg, returned, pending, flow>>

\* ReactFlow calls onNodesChange: the nodes state changes, and the component
\* renders again, calling useFilteredGraph with the filters of the moment.
onNodesChange ==
    /\ pc = "filtered"
    /\ \E changed \in ChangedStates(flow.nodes, arg.nodes) :
          arg' = [arg EXCEPT !.nodes = changed]
    /\ result' = useFilteredGraph(arg'.nodes, arg'.edges, filters)
    /\ UNCHANGED <<doc, pc, error, typeMap, nodes, edges, visited, queue, rootNode, cur, idx,
                   created, enqueued, expanded, parsed, returned, pending, flow, filters>>

\* ReactFlow calls onEdgesChange: the same for the edges state.
onEdgesChange ==
    /\ pc = "filtered"
    /\ \E changed \in ChangedStates(flow.edges, arg.edges) :
          arg' = [arg EXCEPT !.edges = changed]
    /\ result' = useFilteredGraph(arg'.nodes, arg'.edges, filters)
    /\ UNCHANGED <<doc, pc, error, typeMap, nodes, edges, visited, queue, rootNode, cur, idx,
                   created, enqueued, expanded, parsed, returned, pending, flow, filters>>

FilterNext ==
    Next \/ Convert \/ CallUseFilteredGraph \/ Toggle \/ onNodesChange \/ onEdgesChange

FilterSpec == FilterInit /\ [][FilterNext]_vars

Ids(items) == {items[i].id : i \in 1..Len(items)}

\* C23: the conversion has one node per key of the node mapping, in key
\* order and with the key as identifier, and one edge per graph edge, the
\* i-th with the source and the target of the i-th graph edge.
C23_OneToOneConversion ==
    pc = "converted" =>
        /\ Len(flow.nodes) = Len(nodes)
        /\ \A i \in 1..Len(nodes) : flow.nodes[i].id = nodes[i].key
        /\ Cardinality(Ids(flow.nodes)) = Len(nodes)
        /\ Len(flow.edges) = Len(edges)
        /\ \A i \in 1..Len(edges) :
              /\ flow.edges[i].source = edges[i].source
              /\ flow.edges[i].target = edges[i].target

\* A converted graph of four nodes or more with an edge to a name that has
\* no node, before an edge to a node.
C23_Witness ==
    /\ pc = "converted"
    /\ Len(flow.nodes) >= 4
    /\ \E i, j \in 1..Len(flow.edges) :
          /\ i < j
          /\ ~MapHas(nodes, flow.edges[i].target)
          /\ MapHas(nodes, flow.edges[j].target)
          /\ flow.edges[i].source # flow.edges[j].source

\* C24: no two edges of the conversion have the same identifier.
C24_EdgeIdsDistinct ==
    pc = "converted" =>
        \A i, j \in 1..Len(flow.edges) : i # j => flow.edges[i].id # flow.edges[j].id

\* A converted graph of more than ten edges, two of them with the same
\* source and the same target.
C24_Witness ==
    /\ pc = "converted"
    /\ Len(flow.edges) > 10
    /\ \E i, j \in 1..Len(flow.edges) :
          /\ i # j
          /\ flow.edges[i].source = flow.edges[j].source
          /\ flow.edges[i].target = flow.edges[j].target

\* C25: whatever the switches and whichever nodes and edges of the
\* conversion the arrays lack, every edge useFilteredGraph returned has its
\* source and its target among the nodes it returned with it; so none of them
\* leads to a name without a node.
C25_ShownEdgesJoinShownNodes ==
    pc = "filtered" =>
        \A i \in 1..Len(result.edges) :
            /\ result.edges[i].source \in Ids(result.nodes)
            /\ result.edges[i].target \in Ids(result.nodes)
            /\ MapHas(nodes, result.edges[i].target)

\* After flipped switches a call on the whole conversion returns some edges
\* and leaves out an edge without a target node and an edge to a hidden node,
\* all of a kind whose switch is on.
C25_Witness ==
    /\ pc = "filtered"
    /\ arg = flow
    /\ filters # InitialFilters
    /\ filters.showFields
    /\ result.edges # << >>
    /\ \E i, j \in 1..Len(flow.edges) :
          /\ edges[i].edgeType = FIELD
          /\ edges[j].edgeType = FIELD
          /\ ~MapHas(nodes, flow.edges[i].target)
          /\ MapHas(nodes, flow.edges[j].target)
          /\ flow.edges[j].target \notin Ids(result.nodes)
          /\ flow.edges[i].id \notin Ids(result.edges)
          /\ flow.edges[j].id \notin Ids(result.edges)

\* The switch of an edge kind of the TypeGraph.
SwitchOf(edgeType) ==
    CASE edgeType = FIELD -> "showFields"
      [] edgeType = IMPLEMENTS -> "showImplements"
      [] edgeType = UNION_MEMBER -> "showUnions"

\* The kind the graph edge has of which toReactFlow made the edge.
KindOf(edge) ==
    edges[CHOOSE i \in 1..Len(flow.edges) : flow.edges[i].id = edge.id].edgeType

\* C26: of the edges useFilteredGraph was given, all made by toReactFlow, one
\* whose two ends are among the returned nodes is left out exactly when the
\* switch of the kind of its graph edge is off.
C26_SwitchHidesItsKind ==
    pc = "filtered" =>
        \A i \in 1..Len(arg.edges) :
            (/\ arg.edges[i].source \in Ids(result.nodes)
             /\ arg.edges[i].target \in Ids(result.nodes))
            => (arg.edges[i].id \notin Ids(result.edges)
                    <=> ~filters[SwitchOf(KindOf(arg.edges[i]))])

\* A call with the IMPLEMENTS switch on and the other two off, on edges
\* among which is one of each kind between returned nodes.
C26_Witness ==
    /\ pc = "filtered"
    /\ ~filters.showFields /\ filters.showImplements /\ ~filters.showUnions
    /\ \A kind \in {FIELD, IMPLEMENTS, UNION_MEMBER} :
          \E i \in 1..Len(arg.edges) :
              /\ KindOf(arg.edges[i]) = kind
              /\ arg.edges[i].source \in Ids(result.nodes)
              /\ arg.edges[i].target \in Ids(result.nodes)
    /\ \E i \in 1..Len(result.edges) : result.edges[i].style.strokeDasharray = DashImplements

---------------------------------------------------------------------------
(* The worklist *)

InLoop == pc \in {"loop", "fields", "interfaces", "possibleTypes"}

\* C27: while the traversal loop runs, visited is the key set of the node
\* mapping, every queued name is a key that was not dequeued yet, and no name
\* is queued twice.
C27_WorklistInvariant ==
    InLoop =>
        /\ visited = KeySet(nodes)
        /\ \A i \in 1..Len(queue) :
              /\ MapHas(nodes, queue[i])
              /\ queue[i] \notin Range(expanded)
        /\ NoDuplicates(queue)
        /\ Len(expanded) + Len(queue) = Len(nodes)

\* In the middle of an expansion two names wait in the queue and two were
\* dequeued.
C27_Witness ==
    /\ pc = "fields"
    /\ Len(queue) >= 2
    /\ Len(expanded) >= 2
    /\ idx >= 1

\* A name, and neither null nor undefined.
IsName(n) == n \notin {Null, Undefined}

\* C28: every edge of a returned graph has a source that is a key of the node
\* mapping and a target that is a name; a reference that resolves to null
\* gives no edge.
C28_SourcesAreNodesTargetsAreNames ==
    pc = "done" =>
        \A i \in 1..Len(edges) :
            /\ MapHas(nodes, edges[i].source)
            /\ IsName(edges[i].source)
            /\ IsName(edges[i].target)

\* A returned graph with a node whose record has an interface or member
\* reference that resolves to null, and with an edge to a name without a node.
C28_Witness ==
    /\ pc = "done"
    /\ \E s \in KeySet(nodes) :
          LET record == RecordOf(doc, s)
          IN  \/ \E i \in 1..Len(record.interfaces.items) :
                    unwrapType(record.interfaces.items[i]) = Null
              \/ \E i \in 1..Len(record.possibleTypes.items) :
                    unwrapType(record.possibleTypes.items[i]) = Null
    /\ \E i \in 1..Len(edges) : ~MapHas(nodes, edges[i].target)

\* C29: in a returned graph the keys of the node mapping are in the order in
\* which the names were enqueued, which is the order in which they were
\* dequeued; the root is first and the distance from the root never decreases
\* along the keys.
C29_InsertionOrderIsQueueOrder ==
    pc = "done" =>
        /\ MapKeys(nodes) = enqueued
        /\ MapKeys(nodes) = expanded
        /\ nodes[1].key = rootNode.name
        /\ \A i, j \in 1..Len(nodes) :
              i < j => DistanceFromRoot(nodes[i].key) <= DistanceFromRoot(nodes[j].key)

\* A returned graph of four nodes, the last at distance two or more.
C29_Witness ==
    /\ pc = "done"
    /\ Len(nodes) >= 4
    /\ DistanceFromRoot(nodes[2].key) = 1
    /\ DistanceFromRoot(nodes[3].key) = 1
    /\ DistanceFromRoot(nodes[Len(nodes)].key) >= 2

\* C30: a call fails in its first step or never; a document without a types
\* sequence fails as invalid input also when it has no query type; a document
\* with a types sequence and no query type fails for want of a root type, be
\* the list empty or not, with or without a type named Query; and no node or
\* edge exists in a failed call.
C30_FailureOrder ==
    /\ [](pc # "start" =>
            /\ (~doc.hasSchema \/ ~doc.types.defined)
                  => (pc = "failed" /\ error = ErrInvalidInput)
            /\ (doc.hasSchema /\ doc.types.defined /\ ~doc.queryType.defined)
                  => (pc = "failed" /\ error = ErrNoRootType)
            /\ pc = "failed" => (nodes = << >> /\ edges = << >> /\ created = << >>))
    /\ [][pc' = "failed" => pc = "start"]_vars

\* The call failed as invalid input on a schema object that has neither a
\* types sequence nor a query type.
C30_Witness ==
    /\ pc = "failed"
    /\ error = ErrInvalidInput
    /\ doc.hasSchema
    /\ ~doc.types.defined
    /\ ~doc.queryType.defined

====
